---- MODULE Spec2Model ----
(***************************************************************************)
(* Workflow/queue engine of the referral CRM (services/workflow_service.py)*)
(* together with the ingestion pipeline that drives its email operations   *)
(* (automations/email_ingestion.py) over a shared transactional store.     *)
(*                                                                         *)
(* The committed database is the triple (emails, items, referrals).  One   *)
(* action is one handler up to its commit; what a session changed and did  *)
(* not commit is discarded when the handler raises (session_scope rolls    *)
(* back, get_session closes the session).                                  *)
(***************************************************************************)
EXTENDS Integers, Sequences, FiniteSets, TLC

VARIABLES queues, emails, items, referrals, ing, sess, last, now, run, ext, dim, zip

vars == <<queues, emails, items, referrals, ing, sess, last, now, run, ext, dim, zip>>

----------------------------------------------------------------------------
(* Bounds of the model *)

MaxMsgs == 1
MaxItems == 4
MaxLines == 1
MaxFetch == 2

----------------------------------------------------------------------------
(* Values *)

QueueTypes == {"extraction", "intake", "care_coordination"}

Users == {"alice", "bob"}

NoUser == "none"

NoId == 0

NoTime == 0 - 1

Messages == 1 .. MaxMsgs

NonTerminal == {"pending", "in_progress"}

Terminal == {"completed", "failed", "skipped"}

Sla(qt) ==
    CASE qt = "extraction" -> 15
      [] qt = "intake" -> 60
      [] OTHER -> 240

(* The inbox: message 1 has an urgency keyword in its subject, asks for a *)
(* high priority and names MaxLines services, and every field extracted   *)
(* from it comes with confidence 0; every other message is a plain one    *)
(* without services, message 2 extracted with an overall confidence of 60 *)
(* and the others with 90 (on the 0-100 scale of ExtractedField).         *)
SubjectUrgent(m) == m = 1

ExtractedPriority(m) == IF m = 1 THEN "high" ELSE "medium"

OverallConfidence(m) ==
    CASE m = 1 -> 0
      [] m = 2 -> 60
      [] OTHER -> 90

(* email_ingestion.py 366: needs_human_review=extraction_confidence < 0.8 *)
needs_human_review(c) == 10 * c < 8

ServiceLines(m) == IF m = 1 THEN MaxLines ELSE 0

_determine_email_priority(m) ==
    IF SubjectUrgent(m) THEN "urgent" ELSE "medium"

----------------------------------------------------------------------------
(* Rows *)

NewEmail(m) ==
    [graph_id |-> m, status |-> "received", extraction_attempts |-> 0,
     last_extraction_error |-> FALSE]

(* the free-text columns (notes, rejection_reason) are written and never   *)
(* read by the engine; they are left out of the rows                       *)
NewItem(qt, e, r, prio, t) ==
    [queue |-> qt, email_id |-> e, referral_id |-> r, status |-> "pending",
     priority |-> prio, assigned_to |-> NoUser, assigned_at |-> NoTime,
     entered_queue_at |-> t, due_at |-> t + Sla(qt), started_at |-> NoTime,
     completed_at |-> NoTime, attempt_count |-> 0, last_error |-> FALSE]

NewReferral(e, prio, conf, n) ==
    [email_id |-> e, status |-> "draft", priority |-> prio,
     extraction_confidence |-> conf,
     needs_human_review |-> needs_human_review(conf),
     line_numbers |-> [k \in 1 .. n |-> 0]]

DB == [emails |-> emails, items |-> items, referrals |-> referrals]

Ok(db, res, found) == [db |-> db, raised |-> FALSE, result |-> res, found |-> found]

(* the handler raised before its commit: the session's changes are lost *)
RollbackKeepsFlushed(db, pend) == pend

Rollback(db, pend) == db

Raise(db, pend, found) ==
    [db |-> Rollback(db, pend), raised |-> TRUE, result |-> NoId, found |-> found]

Range(f) == {f[k] : k \in DOMAIN f}

(* .first() of a query without ORDER BY: any matching row, or none *)
First(S) == IF S = {} THEN {NoId} ELSE S

----------------------------------------------------------------------------
(* Queries *)

get_queue(qs, qt) == qt \in qs

CurrentItems(db, qs, r, qt) ==
    IF ~get_queue(qs, qt) THEN {}
    ELSE {i \in DOMAIN db.items :
            /\ db.items[i].queue = qt
            /\ db.items[i].referral_id = r
            /\ db.items[i].status \in NonTerminal}

EmailItems(db, e, st) ==
    {i \in DOMAIN db.items :
        db.items[i].email_id = e /\ db.items[i].status = st}

ExistingEmail(db, m) ==
    {e \in DOMAIN db.emails : db.emails[e].graph_id = m}

----------------------------------------------------------------------------
(* Email -> extraction queue *)

queue_email_for_extraction(db, qs, e, t) ==
    IF ~get_queue(qs, "extraction") THEN Raise(db, db, NoId)
    ELSE Ok([db EXCEPT
               !.items = Append(@, NewItem("extraction", e, NoId,
                                 _determine_email_priority(db.emails[e].graph_id), t)),
               !.emails[e].status = "pending_extraction"],
            Len(db.items) + 1, NoId)

start_extraction_item_uncounted(db, e, i, t) ==
    LET d1 == IF i = NoId THEN db
              ELSE [db EXCEPT !.items[i].status = "in_progress",
                              !.items[i].started_at = t]
    IN  Ok([d1 EXCEPT !.emails[e].status = "extraction_in_progress",
                      !.emails[e].extraction_attempts = @ + 1],
           i, i)

start_extraction(db, e, i, t) ==
    LET d1 == IF i = NoId THEN db
              ELSE [db EXCEPT !.items[i].status = "in_progress",
                              !.items[i].started_at = t,
                              !.items[i].attempt_count = @ + 1]
    IN  Ok([d1 EXCEPT !.emails[e].status = "extraction_in_progress",
                      !.emails[e].extraction_attempts = @ + 1],
           i, i)

fail_extraction_requeues(db, e, i, t) ==
    LET d1 == IF i = NoId THEN db
              ELSE [db EXCEPT !.items[i].status = "failed",
                              !.items[i].last_error = TRUE,
                              !.items[i].completed_at = t]
    IN  Ok([d1 EXCEPT !.emails[e].status = "pending_extraction",
                      !.emails[e].last_extraction_error = TRUE],
           NoId, i)

fail_extraction(db, e, i, t) ==
    LET d1 == IF i = NoId THEN db
              ELSE [db EXCEPT !.items[i].status = "failed",
                              !.items[i].last_error = TRUE,
                              !.items[i].completed_at = t]
    IN  Ok([d1 EXCEPT !.emails[e].status = "extraction_failed",
                      !.emails[e].last_extraction_error = TRUE],
           NoId, i)

----------------------------------------------------------------------------
(* Extraction complete -> intake queue *)

complete_extraction_item_left_open(db, qs, e, i, ref, t) ==
    LET d2 == [db EXCEPT !.emails[e].status = "processed"]
        r  == Len(db.referrals) + 1
        row == [ref EXCEPT !.email_id = e,
                           !.status = "pending_validation",
                           !.line_numbers = [k \in DOMAIN ref.line_numbers |-> k]]
        d3 == [d2 EXCEPT !.referrals = Append(@, row)]
    IN  IF ~get_queue(qs, "intake") THEN Raise(db, d3, i)
        ELSE Ok([d3 EXCEPT !.items =
                    Append(@, NewItem("intake", NoId, r, ref.priority, t))],
                Len(db.items) + 1, i)

complete_extraction_and_queue_for_intake(db, qs, e, i, ref, t) ==
    LET d1 == IF i = NoId THEN db
              ELSE [db EXCEPT !.items[i].status = "completed",
                              !.items[i].completed_at = t]
        d2 == [d1 EXCEPT !.emails[e].status = "processed"]
        r  == Len(db.referrals) + 1
        row == [ref EXCEPT !.email_id = e,
                           !.status = "pending_validation",
                           !.line_numbers = [k \in DOMAIN ref.line_numbers |-> k]]
        d3 == [d2 EXCEPT !.referrals = Append(@, row)]
    IN  IF ~get_queue(qs, "intake") THEN Raise(db, d3, i)
        ELSE Ok([d3 EXCEPT !.items =
                    Append(@, NewItem("intake", NoId, r, ref.priority, t))],
                Len(db.items) + 1, i)

----------------------------------------------------------------------------
(* Intake and care-coordination queue operations *)

ClaimAllowedAnyStatus(it) == TRUE

(* lines 251-252, 366-367: only a pending item is claimed *)
ClaimAllowed(it) == it.status = "pending"

(* lines 254-257, 369-376: what a successful claim writes *)
ClaimWrite(db, qt, i, u, t) ==
    LET d1 == [db EXCEPT !.items[i].status = "in_progress",
                         !.items[i].assigned_to = u,
                         !.items[i].assigned_at = t,
                         !.items[i].started_at = t]
        r  == db.items[i].referral_id
    IN  IF qt = "care_coordination" /\ r \in DOMAIN db.referrals
        THEN [d1 EXCEPT !.referrals[r].status = "pending_scheduling"]
        ELSE d1

Claim(db, qt, u, i, t) ==
    IF i = NoId THEN Ok(db, NoId, NoId)
    ELSE IF ~ClaimAllowed(db.items[i]) THEN Ok(db, NoId, i)
    ELSE Ok(ClaimWrite(db, qt, i, u, t), i, i)

claim_intake_item(db, u, i, t) == Claim(db, "intake", u, i, t)

claim_care_coordination_item(db, u, i, t) ==
    Claim(db, "care_coordination", u, i, t)

ReleaseMatchAnyUser(it, u) == it.status = "in_progress"

ReleaseMatchAnyStatus(it, u) == it.assigned_to = u

ReleaseMatchAssigned(it, u) == it.assigned_to # NoUser /\ it.status = "in_progress"

(* lines 265-273: the row the release query selects *)
ReleaseMatch(it, u) == it.assigned_to = u /\ it.status = "in_progress"

release_queue_item(db, id, u) ==
    IF id \notin DOMAIN db.items \/ ~ReleaseMatch(db.items[id], u)
    THEN [db |-> db, raised |-> FALSE, result |-> FALSE, found |-> NoId]
    ELSE [db |-> [db EXCEPT !.items[id].status = "pending",
                            !.items[id].assigned_to = NoUser,
                            !.items[id].assigned_at = NoTime,
                            !.items[id].started_at = NoTime],
          raised |-> FALSE, result |-> TRUE, found |-> id]

CompleteItem(db, i, t) ==
    IF i = NoId THEN db
    ELSE [db EXCEPT !.items[i].status = "completed",
                    !.items[i].completed_at = t]

validate_keeps_review_flag(db, qs, r, i, t) ==
    LET d1 == [db EXCEPT !.referrals[r].status = "validated"]
        d2 == CompleteItem(d1, i, t)
    IN  IF ~get_queue(qs, "care_coordination") THEN Raise(db, d2, i)
        ELSE Ok([d2 EXCEPT !.items =
                    Append(@, NewItem("care_coordination", NoId, r,
                                      db.referrals[r].priority, t))],
                Len(db.items) + 1, i)

validate_and_queue_for_scheduling(db, qs, r, i, t) ==
    LET d1 == [db EXCEPT !.referrals[r].status = "validated",
                         !.referrals[r].needs_human_review = FALSE]
        d2 == CompleteItem(d1, i, t)
    IN  IF ~get_queue(qs, "care_coordination") THEN Raise(db, d2, i)
        ELSE Ok([d2 EXCEPT !.items =
                    Append(@, NewItem("care_coordination", NoId, r,
                                      db.referrals[r].priority, t))],
                Len(db.items) + 1, i)

reject_referral(db, r, i, t) ==
    LET d1 == [db EXCEPT !.referrals[r].status = "rejected"]
    IN  Ok(CompleteItem(d1, i, t), NoId, i)

complete_scheduling(db, r, i, t) ==
    LET d1 == [db EXCEPT !.referrals[r].status = "scheduled"]
    IN  Ok(CompleteItem(d1, i, t), NoId, i)

complete_referral(db, r, t) ==
    Ok([db EXCEPT !.referrals[r].status = "completed"], NoId, NoId)

----------------------------------------------------------------------------
(* State *)

(* what the last handler was called with and what it returned *)
NoOp ==
    [op |-> "none", item |-> NoId, user |-> NoUser, result |-> NoId,
     raised |-> FALSE, found |-> NoId]

Call(op, it, u, out) ==
    [op |-> op, item |-> it, user |-> u,
     result |-> out.result, raised |-> out.raised, found |-> out.found]

(* the record of the last call that wrote to the database or raised; a     *)
(* call that did neither leaves every variable as it was                   *)
Trace(op, it, u, out) ==
    IF out.db = DB /\ ~out.raised THEN last ELSE Call(op, it, u, out)

Idle == [pc |-> "idle", msg |-> NoId, email |-> NoId]

SessIdle == [pc |-> "idle", queue |-> "none", ref |-> NoId, item |-> NoId,
             result |-> NoId]

(* the processes that run ingestion passes: the polling daemon and the     *)
(* API's ingestion trigger                                                 *)
Pollers == {"poller", "api"}

(* one pass of run(): position in the fetched list, the list's length, the *)
(* counters of stats, and the Email row of the message being processed     *)
PassIdle == [pc |-> "idle", i |-> 0, n |-> 0, processed |-> 0, errors |-> 0,
             email |-> NoId]

(* no extraction is being looked at *)
NoExtraction == [pc |-> "none"]

(* no reference data loaded, no zip code under conversion *)
NoLoad == [icd10 |-> <<>>, procedures |-> <<>>, kind |-> "none", file |-> <<>>,
           before |-> <<>>, raised |-> FALSE, count |-> 0, loads |-> 0]

NoZip == [pc |-> "none"]

Commit(out) ==
    /\ emails' = out.db.emails
    /\ items' = out.db.items
    /\ referrals' = out.db.referrals

Init ==
    /\ queues \in SUBSET QueueTypes
    /\ emails = <<>>
    /\ items = <<>>
    /\ referrals = <<>>
    /\ ing = Idle
    /\ sess = [u \in Users |-> SessIdle]
    /\ last = NoOp
    /\ now = 0
    /\ run = [p \in Pollers |-> PassIdle]
    /\ ext = NoExtraction
    /\ dim = NoLoad
    /\ zip = NoZip

----------------------------------------------------------------------------
(* Ingestion pipeline: _process_email(message), one action per commit *)

(* lines 173-217: duplicate check, Email row, queue_email_for_extraction *)
IngestEnqueue(m) ==
    /\ ing.pc = "idle"
    /\ Len(items) < MaxItems
    /\ IF ExistingEmail(DB, m) # {}
       THEN /\ last' = last
            /\ UNCHANGED <<emails, items, referrals, ing>>
       ELSE LET e == Len(emails) + 1
                d0 == [DB EXCEPT !.emails = Append(@, NewEmail(m))]
                out == queue_email_for_extraction(d0, queues, e, now)
            IN  IF out.raised
                THEN /\ last' = Trace("queue_email_for_extraction", NoId,
                                     NoUser, out)
                     /\ UNCHANGED <<emails, items, referrals, ing>>
                ELSE /\ Commit(out)
                     /\ ing' = [pc |-> "queued", msg |-> m, email |-> e]
                     /\ last' = Trace("queue_email_for_extraction", NoId,
                                     NoUser, out)
    /\ UNCHANGED <<dim, zip, ext, run, queues, sess, now>>

(* line 218 *)
IngestStart ==
    /\ ing.pc = "queued"
    /\ \E i \in First(EmailItems(DB, ing.email, "pending")) :
         LET out == start_extraction(DB, ing.email, i, now)
         IN  /\ Commit(out)
             /\ last' = Trace("start_extraction", NoId, NoUser, out)
    /\ ing' = [ing EXCEPT !.pc = "started"]
    /\ UNCHANGED <<dim, zip, ext, run, queues, sess, now>>

(* lines 223-252: the extraction block raised *)
IngestExtractFail ==
    /\ ing.pc = "started"
    /\ \E i \in First(EmailItems(DB, ing.email, "in_progress")) :
         LET out == fail_extraction(DB, ing.email, i, now)
         IN  /\ Commit(out)
             /\ last' = Trace("fail_extraction", NoId, NoUser, out)
    /\ ing' = Idle
    /\ UNCHANGED <<dim, zip, ext, run, queues, sess, now>>

(* lines 254-424: referral and line items built, then the single commit of *)
(* complete_extraction_and_queue_for_intake; an exception leaves through   *)
(* session_scope, which rolls back                                          *)
IngestComplete ==
    /\ ing.pc = "started"
    /\ Len(items) < MaxItems
    /\ \E i \in First(EmailItems(DB, ing.email, "in_progress")) :
         LET ref == NewReferral(ing.email, ExtractedPriority(ing.msg),
                                OverallConfidence(ing.msg), ServiceLines(ing.msg))
             out == complete_extraction_and_queue_for_intake(
                        DB, queues, ing.email, i, ref, now)
         IN  /\ Commit(out)
             /\ last' = Trace("complete_extraction_and_queue_for_intake",
                             NoId, NoUser, out)
    /\ ing' = Idle
    /\ UNCHANGED <<dim, zip, ext, run, queues, sess, now>>

(* lines 254-399: building the referral raised (carrier lookup, a value of *)
(* the wrong type, the line-item parser); nothing catches it before        *)
(* session_scope, so nothing after start_extraction is committed           *)
IngestAbort ==
    /\ ing.pc = "started"
    /\ ing' = Idle
    /\ last' = [NoOp EXCEPT !.op = "_process_email", !.raised = TRUE]
    /\ UNCHANGED <<dim, zip, ext, run, queues, emails, items, referrals, sess, now>>

Ingest ==
    \/ \E m \in Messages : IngestEnqueue(m)
    \/ IngestStart
    \/ IngestExtractFail
    \/ IngestAbort
    \/ IngestComplete

----------------------------------------------------------------------------
(* Worker operations, each one handler in its own session *)

RefIds == 1 .. (Len(referrals) + 1)

ItemIds == 1 .. (Len(items) + 1)

ClaimIntake(r, u) ==
    /\ \E i \in First(CurrentItems(DB, queues, r, "intake")) :
         LET out == claim_intake_item(DB, u, i, now)
         IN  /\ Commit(out)
             /\ last' = Trace("claim_intake_item", NoId, u, out)
    /\ UNCHANGED <<dim, zip, ext, run, queues, ing, sess, now>>

ClaimCareCoordination(r, u) ==
    /\ \E i \in First(CurrentItems(DB, queues, r, "care_coordination")) :
         LET out == claim_care_coordination_item(DB, u, i, now)
         IN  /\ Commit(out)
             /\ last' = Trace("claim_care_coordination_item", NoId, u, out)
    /\ UNCHANGED <<dim, zip, ext, run, queues, ing, sess, now>>

Release(id, u) ==
    /\ LET out == release_queue_item(DB, id, u)
       IN  /\ Commit(out)
           /\ last' = Trace("release_queue_item", id, u,
                            [out EXCEPT !.result = IF @ THEN id ELSE NoId])
    /\ UNCHANGED <<dim, zip, ext, run, queues, ing, sess, now>>

Validate(r) ==
    /\ r \in DOMAIN referrals
    /\ Len(items) < MaxItems
    /\ \E i \in First(CurrentItems(DB, queues, r, "intake")) :
         LET out == validate_and_queue_for_scheduling(DB, queues, r, i, now)
         IN  /\ Commit(out)
             /\ last' = Trace("validate_and_queue_for_scheduling", NoId,
                             NoUser, out)
    /\ UNCHANGED <<dim, zip, ext, run, queues, ing, sess, now>>

Reject(r) ==
    /\ r \in DOMAIN referrals
    /\ \E i \in First(CurrentItems(DB, queues, r, "intake")) :
         LET out == reject_referral(DB, r, i, now)
         IN  /\ Commit(out)
             /\ last' = Trace("reject_referral", NoId, NoUser, out)
    /\ UNCHANGED <<dim, zip, ext, run, queues, ing, sess, now>>

CompleteScheduling(r) ==
    /\ r \in DOMAIN referrals
    /\ \E i \in First(CurrentItems(DB, queues, r, "care_coordination")) :
         LET out == complete_scheduling(DB, r, i, now)
         IN  /\ Commit(out)
             /\ last' = Trace("complete_scheduling", NoId, NoUser, out)
    /\ UNCHANGED <<dim, zip, ext, run, queues, ing, sess, now>>

CompleteReferral(r) ==
    /\ r \in DOMAIN referrals
    /\ LET out == complete_referral(DB, r, now)
       IN  /\ Commit(out)
           /\ last' = Trace("complete_referral", NoId, NoUser, out)
    /\ UNCHANGED <<dim, zip, ext, run, queues, ing, sess, now>>

Work ==
    \/ \E r \in RefIds, u \in Users : ClaimIntake(r, u)
    \/ \E r \in RefIds, u \in Users : ClaimCareCoordination(r, u)
    \/ \E id \in ItemIds, u \in Users : Release(id, u)
    \/ \E r \in RefIds : Validate(r)
    \/ \E r \in RefIds : Reject(r)
    \/ \E r \in RefIds : CompleteScheduling(r)
    \/ \E r \in RefIds : CompleteReferral(r)

Next == Ingest \/ Work

Spec == Init /\ [][Next]_vars

----------------------------------------------------------------------------
(* Claims running concurrently, one session per worker.  The session reads *)
(* the current item (lines 246-252), and its commit (line 259) writes the  *)
(* loaded row by primary key, whatever other sessions committed meanwhile. *)

ClaimTypes == {"intake", "care_coordination"}

ClaimRead(u, qt, r) ==
    /\ sess[u].pc = "idle"
    /\ \E i \in First(CurrentItems(DB, queues, r, qt)) :
         IF i # NoId /\ ClaimAllowed(items[i])
         THEN sess' = [sess EXCEPT ![u] =
                  [pc |-> "claiming", queue |-> qt, ref |-> r, item |-> i,
                   result |-> NoId]]
         ELSE sess' = [sess EXCEPT ![u] =
                  [pc |-> "done", queue |-> qt, ref |-> r, item |-> i,
                   result |-> NoId]]
    /\ last' = [NoOp EXCEPT !.op = "claim_read", !.user = u]
    /\ UNCHANGED <<dim, zip, ext, run, queues, emails, items, referrals, ing, now>>

ClaimCommit(u) ==
    /\ sess[u].pc = "claiming"
    /\ LET out == Ok(ClaimWrite(DB, sess[u].queue, sess[u].item, u, now),
                     sess[u].item, sess[u].item)
       IN  /\ Commit(out)
           /\ last' = Trace("claim_commit", NoId, u, out)
    /\ sess' = [sess EXCEPT ![u].pc = "done", ![u].result = sess[u].item]
    /\ UNCHANGED <<dim, zip, ext, run, queues, ing, now>>

NextConc ==
    \/ Ingest
    \/ \E r \in RefIds : Validate(r)
    \/ \E u \in Users, qt \in ClaimTypes, r \in RefIds : ClaimRead(u, qt, r)
    \/ \E u \in Users : ClaimCommit(u)

SpecConc == Init /\ [][NextConc]_vars

----------------------------------------------------------------------------
(* Ingestion passes: run() over the fetched messages 1 .. MaxFetch, by     *)
(* processes that may overlap; _process_email as above, its duplicate      *)
(* check and its INSERT now separate steps                                 *)

Advance(rec) ==
    [rec EXCEPT !.i = @ + 1, !.email = NoId,
                !.pc = IF rec.i + 1 > rec.n THEN "done" ELSE "check"]

(* lines 147-154: _process_email returned *)
Returned(rec) == [Advance(rec) EXCEPT !.processed = @ + 1]

ExceptedStopsPass(rec) ==
    [rec EXCEPT !.errors = @ + 1, !.email = NoId, !.pc = "done"]

(* lines 156-158: _process_email raised; the loop goes on *)
Excepted(rec) == [Advance(rec) EXCEPT !.errors = @ + 1]

InsertEmailUnconstrained(db, m) ==
    Ok([db EXCEPT !.emails = Append(@, NewEmail(m))], Len(db.emails) + 1, NoId)

(* lines 188-203 and the unique index on Email.graph_id: the INSERT of a   *)
(* graph_id that a committed row already has raises IntegrityError         *)
InsertEmail(db, m) ==
    IF ExistingEmail(db, m) # {} THEN Raise(db, db, NoId)
    ELSE Ok([db EXCEPT !.emails = Append(@, NewEmail(m))],
            Len(db.emails) + 1, NoId)

(* lines 121-143: the messages are fetched *)
PassBegin(p) ==
    /\ run[p].pc \in {"idle", "done"}
    /\ run' = [run EXCEPT ![p] = [PassIdle EXCEPT !.pc = "check", !.i = 1,
                                                  !.n = MaxFetch]]
    /\ UNCHANGED <<dim, zip, ext, queues, emails, items, referrals, ing, sess, last, now>>

(* lines 178-183: the duplicate check *)
PassCheck(p) ==
    /\ run[p].pc = "check"
    /\ run' = [run EXCEPT ![p] =
                  IF ExistingEmail(DB, run[p].i) # {}
                  THEN Returned(@) ELSE [@ EXCEPT !.pc = "insert"]]
    /\ UNCHANGED <<dim, zip, ext, queues, emails, items, referrals, ing, sess, last, now>>

(* lines 188-217: Email row, queue_email_for_extraction and its commit *)
PassEnqueue(p) ==
    /\ run[p].pc = "insert"
    /\ LET ins == InsertEmail(DB, run[p].i)
           e   == ins.result
           out == IF ins.raised THEN ins
                  ELSE queue_email_for_extraction(ins.db, queues, e, now)
       IN  IF out.raised
           THEN /\ run' = [run EXCEPT ![p] = Excepted(@)]
                /\ UNCHANGED <<emails, items, referrals>>
           ELSE /\ run' = [run EXCEPT ![p] = [@ EXCEPT !.pc = "queued",
                                                       !.email = e]]
                /\ Commit(out)
    /\ UNCHANGED <<dim, zip, ext, queues, ing, sess, last, now>>

(* line 218 *)
PassStart(p) ==
    /\ run[p].pc = "queued"
    /\ \E i \in First(EmailItems(DB, run[p].email, "pending")) :
         Commit(start_extraction(DB, run[p].email, i, now))
    /\ run' = [run EXCEPT ![p] = [@ EXCEPT !.pc = "started"]]
    /\ UNCHANGED <<dim, zip, ext, queues, ing, sess, last, now>>

(* lines 223-252: the extraction block raised; "created" is returned *)
PassExtractFail(p) ==
    /\ run[p].pc = "started"
    /\ \E i \in First(EmailItems(DB, run[p].email, "in_progress")) :
         Commit(fail_extraction(DB, run[p].email, i, now))
    /\ run' = [run EXCEPT ![p] = Returned(@)]
    /\ UNCHANGED <<dim, zip, ext, queues, ing, sess, last, now>>

(* lines 254-399 raised *)
PassAbort(p) ==
    /\ run[p].pc = "started"
    /\ run' = [run EXCEPT ![p] = Excepted(@)]
    /\ UNCHANGED <<dim, zip, ext, queues, emails, items, referrals, ing, sess, last, now>>

(* lines 254-424 *)
PassComplete(p) ==
    /\ run[p].pc = "started"
    /\ \E i \in First(EmailItems(DB, run[p].email, "in_progress")) :
         LET m   == emails[run[p].email].graph_id
             ref == NewReferral(run[p].email, ExtractedPriority(m),
                                OverallConfidence(m), ServiceLines(m))
             out == complete_extraction_and_queue_for_intake(
                        DB, queues, run[p].email, i, ref, now)
         IN  /\ Commit(out)
             /\ run' = [run EXCEPT ![p] =
                           IF out.raised THEN Excepted(@) ELSE Returned(@)]
    /\ UNCHANGED <<dim, zip, ext, queues, ing, sess, last, now>>

NextPass ==
    \E p \in Pollers :
        \/ PassBegin(p)
        \/ PassCheck(p)
        \/ PassEnqueue(p)
        \/ PassStart(p)
        \/ PassExtractFail(p)
        \/ PassAbort(p)
        \/ PassComplete(p)

SpecPass == Init /\ [][NextPass]_vars

----------------------------------------------------------------------------
(* The LLM call of extract_from_email fails (exception, transport error,   *)
(* timeout)                                                                *)

(* extraction_service.py 459-472: the exception is caught inside           *)
(* extract_from_email, which returns an empty ExtractionResult; the        *)
(* pipeline's try (224-252) sees no exception                              *)
IngestLlmError ==
    /\ ing.pc = "started"
    /\ ing' = [ing EXCEPT !.pc = "llm_failed"]
    /\ last' = [NoOp EXCEPT !.op = "extract_from_email"]
    /\ UNCHANGED <<dim, zip, ext, run, queues, emails, items, referrals, sess, now>>

(* lines 254-424 with extraction_data = {} and extraction_confidence = 0.0: *)
(* priority MEDIUM, needs_human_review = (0.0 < 0.8), no line items         *)
IngestCompleteEmpty ==
    /\ ing.pc = "llm_failed"
    /\ Len(items) < MaxItems
    /\ \E i \in First(EmailItems(DB, ing.email, "in_progress")) :
         LET ref == NewReferral(ing.email, "medium", 0, 0)
             out == complete_extraction_and_queue_for_intake(
                        DB, queues, ing.email, i, ref, now)
         IN  /\ Commit(out)
             /\ last' = Trace("complete_extraction_and_queue_for_intake",
                             NoId, NoUser, out)
    /\ ing' = Idle
    /\ UNCHANGED <<dim, zip, ext, run, queues, sess, now>>

NextLlm == Next \/ IngestLlmError \/ IngestCompleteEmpty

SpecLlm == Init /\ [][NextLlm]_vars

----------------------------------------------------------------------------
(* ReferralService: status operations of the API and the command line,     *)
(* each one handler in its own session                                     *)

ReferralStatuses ==
    {"draft", "pending_validation", "validated", "pending_scheduling",
     "scheduled", "in_progress", "completed", "submitted_to_filemaker",
     "rejected", "on_hold"}

update_status(db, r, st) ==
    IF r \notin DOMAIN db.referrals THEN Ok(db, NoId, NoId)
    ELSE Ok([db EXCEPT !.referrals[r].status = st], r, NoId)

reject(db, r) ==
    IF r \notin DOMAIN db.referrals THEN Ok(db, NoId, NoId)
    ELSE Ok([db EXCEPT !.referrals[r].status = "rejected"], r, NoId)

mark_submitted_to_filemaker(db, r) ==
    IF r \notin DOMAIN db.referrals THEN Ok(db, NoId, NoId)
    ELSE Ok([db EXCEPT !.referrals[r].status = "submitted_to_filemaker"],
            r, NoId)

UpdateStatus(r, st) ==
    /\ LET out == update_status(DB, r, st)
       IN  /\ Commit(out)
           /\ last' = Trace("update_status", NoId, NoUser, out)
    /\ UNCHANGED <<dim, zip, ext, run, queues, ing, sess, now>>

ServiceReject(r) ==
    /\ LET out == reject(DB, r)
       IN  /\ Commit(out)
           /\ last' = Trace("reject", NoId, NoUser, out)
    /\ UNCHANGED <<dim, zip, ext, run, queues, ing, sess, now>>

MarkSubmitted(r) ==
    /\ LET out == mark_submitted_to_filemaker(DB, r)
       IN  /\ Commit(out)
           /\ last' = Trace("mark_submitted_to_filemaker", NoId, NoUser, out)
    /\ UNCHANGED <<dim, zip, ext, run, queues, ing, sess, now>>

Admin ==
    \/ \E r \in RefIds, st \in ReferralStatuses : UpdateStatus(r, st)
    \/ \E r \in RefIds : ServiceReject(r)
    \/ \E r \in RefIds : MarkSubmitted(r)

NextAdmin == Next \/ Admin

SpecAdmin == Init /\ [][NextAdmin]_vars

----------------------------------------------------------------------------
(* LineItemService: line items added and deleted through the API, each     *)
(* request in its own session                                              *)

MaxOf(S) == IF S = {} THEN 0 ELSE CHOOSE x \in S : \A y \in S : y <= x

(* lines 463-467: the referral is loaded and the highest line_number of    *)
(* its line items is read                                                  *)
LineCreateRead(u, r) ==
    /\ sess[u].pc = "idle"
    /\ IF r \in DOMAIN referrals
       THEN sess' = [sess EXCEPT ![u] =
                        [SessIdle EXCEPT !.pc = "creating", !.ref = r,
                            !.result = MaxOf(Range(referrals[r].line_numbers))]]
       ELSE sess' = [sess EXCEPT ![u] = [SessIdle EXCEPT !.pc = "done"]]
    /\ last' = [NoOp EXCEPT !.op = "create_read", !.user = u,
                            !.raised = r \notin DOMAIN referrals]
    /\ UNCHANGED <<dim, zip, ext, run, queues, emails, items, referrals, ing, now>>

(* lines 469-485: the new row gets max_line + 1 and is committed *)
LineCreateCommit(u) ==
    /\ sess[u].pc = "creating"
    /\ Len(referrals[sess[u].ref].line_numbers) < MaxLines + 2
    /\ sess[u].result < MaxLines + 2
    /\ referrals' = [referrals EXCEPT ![sess[u].ref].line_numbers =
                        Append(@, sess[u].result + 1)]
    /\ sess' = [sess EXCEPT ![u] = [@ EXCEPT !.pc = "done",
                                             !.result = sess[u].result + 1]]
    /\ last' = [NoOp EXCEPT !.op = "create", !.user = u,
                            !.result = sess[u].result + 1]
    /\ UNCHANGED <<dim, zip, ext, run, queues, emails, items, ing, now>>

Without(seq, k) ==
    [j \in 1 .. (Len(seq) - 1) |-> IF j < k THEN seq[j] ELSE seq[j + 1]]

(* lines 505-514: the k-th line item of referral r is deleted *)
LineDelete(r, k) ==
    /\ r \in DOMAIN referrals
    /\ k \in DOMAIN referrals[r].line_numbers
    /\ referrals' = [referrals EXCEPT ![r].line_numbers = Without(@, k)]
    /\ last' = [NoOp EXCEPT !.op = "delete",
                            !.result = referrals[r].line_numbers[k]]
    /\ UNCHANGED <<dim, zip, ext, run, queues, emails, items, ing, sess, now>>

SessionEnd(u) ==
    /\ sess[u].pc = "done"
    /\ sess' = [sess EXCEPT ![u] = SessIdle]
    /\ UNCHANGED <<dim, zip, ext, run, queues, emails, items, referrals, ing, last, now>>

NextLines ==
    \/ Ingest
    \/ \E u \in Users, r \in RefIds : LineCreateRead(u, r)
    \/ \E u \in Users : LineCreateCommit(u)
    \/ \E r \in RefIds, k \in 1 .. (MaxLines + 2) : LineDelete(r, k)
    \/ \E u \in Users : SessionEnd(u)

SpecLines == Init /\ [][NextLines]_vars

----------------------------------------------------------------------------
(* Queue queries against the clock.  datetime.utcnow() advances between    *)
(* handlers; the inbox of these runs holds one message of each kind (the   *)
(* urgent one and a plain one), so that items of different priority wait   *)
(* in one queue.                                                           *)

MaxTicks == 2

(* one step of the clock takes an intake item past its due time *)
TickStep == Sla("intake") + 1

Inbox == {1, 2}

Tick ==
    /\ now < MaxTicks * TickStep
    /\ now' = now + TickStep
    /\ UNCHANGED <<dim, zip, ext, queues, emails, items, referrals, ing, sess, last, run>>

Min(a, b) == IF a <= b THEN a ELSE b

(* line 422: priority_order, which the query does not use *)
PriorityRank(p) ==
    CASE p = "urgent" -> 1
      [] p = "high" -> 2
      [] p = "medium" -> 3
      [] OTHER -> 4

OrderByPriorityThenEntered(a, b) ==
    \/ PriorityRank(a.priority) < PriorityRank(b.priority)
    \/ /\ PriorityRank(a.priority) = PriorityRank(b.priority)
       /\ a.entered_queue_at <= b.entered_queue_at

(* lines 430-433: ORDER BY entered_queue_at ASC *)
OrderByEntered(a, b) == a.entered_queue_at <= b.entered_queue_at

(* lines 426-429: the rows the query filters *)
PendingRows(db, qs, qt) ==
    IF ~get_queue(qs, qt) THEN {}
    ELSE {i \in DOMAIN db.items :
            db.items[i].queue = qt /\ db.items[i].status = "pending"}

(* the lists an ordered, limited query over the rows S may return: rows    *)
(* that compare equal come in any order                                    *)
Listings(db, S, limit) ==
    LET n == Min(limit, Cardinality(S))
    IN  {s \in [1 .. n -> S] :
           /\ \A j, k \in 1 .. n : j < k =>
                /\ s[j] # s[k]
                /\ OrderByEntered(db.items[s[j]], db.items[s[k]])
           /\ \A i \in S \ Range(s) : \A j \in 1 .. n :
                OrderByEntered(db.items[s[j]], db.items[i])}

get_pending_items(db, qs, qt, limit) ==
    Listings(db, PendingRows(db, qs, qt), limit)

NextTime ==
    \/ Tick
    \/ \E m \in Inbox : IngestEnqueue(m)
    \/ IngestStart
    \/ IngestExtractFail
    \/ IngestComplete
    \/ \E r \in RefIds : ClaimIntake(r, "alice")
    \/ \E id \in ItemIds : Release(id, "alice")
    \/ \E r \in RefIds : Validate(r)

SpecTime == Init /\ [][NextTime]_vars

----------------------------------------------------------------------------
(* Overdue items *)

(* models/queue.py 181-186: the attribute looks at due_at only *)
is_overdue(it, t) == IF it.due_at = NoTime THEN FALSE ELSE t > it.due_at

(* lines 438-454; a NULL due_at compares as unknown and is filtered out *)
get_overdue_items(db, qs, qt, t) ==
    IF ~get_queue(qs, qt) THEN {}
    ELSE {i \in DOMAIN db.items :
            /\ db.items[i].queue = qt
            /\ db.items[i].status \in NonTerminal
            /\ db.items[i].due_at # NoTime
            /\ db.items[i].due_at < t}

(* line 478: the overdue count of get_queue_stats *)
OverdueCount(db, qs, qt, t) == Cardinality(get_overdue_items(db, qs, qt, t))

----------------------------------------------------------------------------
(* The two readings of the clock when an item is created: due_at is        *)
(* computed from datetime.utcnow() first (lines 103, 220, 316), and        *)
(* entered_queue_at is a second datetime.utcnow() in the constructor call  *)
(* (lines 110, 227, 323).  In the handlers above both readings fall on one *)
(* value of the clock; here the clock advances between them.               *)

(* the item the handler appended, its entered_queue_at read at t2 *)
EnteredAt(out, t2) ==
    [out EXCEPT !.db.items[Len(out.db.items)].entered_queue_at = t2]

(* the smallest step of the clock between the two readings *)
ClockAdvances ==
    /\ now < MaxTicks * TickStep
    /\ now' = now + 1

EnqueueAcrossTick(m) ==
    /\ ing.pc = "idle"
    /\ Len(items) < MaxItems
    /\ ExistingEmail(DB, m) = {}
    /\ get_queue(queues, "extraction")
    /\ ClockAdvances
    /\ LET e == Len(emails) + 1
           d0 == [DB EXCEPT !.emails = Append(@, NewEmail(m))]
           out == EnteredAt(queue_email_for_extraction(d0, queues, e, now), now')
       IN  /\ Commit(out)
           /\ ing' = [pc |-> "queued", msg |-> m, email |-> e]
           /\ last' = Call("queue_email_for_extraction", NoId, NoUser, out)
    /\ UNCHANGED <<dim, zip, ext, run, queues, sess>>

CompleteAcrossTick ==
    /\ ing.pc = "started"
    /\ Len(items) < MaxItems
    /\ get_queue(queues, "intake")
    /\ ClockAdvances
    /\ \E i \in First(EmailItems(DB, ing.email, "in_progress")) :
         LET ref == NewReferral(ing.email, ExtractedPriority(ing.msg),
                                OverallConfidence(ing.msg), ServiceLines(ing.msg))
             out == EnteredAt(complete_extraction_and_queue_for_intake(
                        DB, queues, ing.email, i, ref, now), now')
         IN  /\ Commit(out)
             /\ last' = Call("complete_extraction_and_queue_for_intake",
                             NoId, NoUser, out)
    /\ ing' = Idle
    /\ UNCHANGED <<dim, zip, ext, run, queues, sess>>

ValidateAcrossTick(r) ==
    /\ r \in DOMAIN referrals
    /\ Len(items) < MaxItems
    /\ get_queue(queues, "care_coordination")
    /\ ClockAdvances
    /\ \E i \in First(CurrentItems(DB, queues, r, "intake")) :
         LET out == EnteredAt(validate_and_queue_for_scheduling(
                        DB, queues, r, i, now), now')
         IN  /\ Commit(out)
             /\ last' = Call("validate_and_queue_for_scheduling", NoId,
                             NoUser, out)
    /\ UNCHANGED <<dim, zip, ext, run, queues, ing, sess>>

NextClock ==
    \/ NextTime
    \/ \E m \in Inbox : EnqueueAcrossTick(m)
    \/ CompleteAcrossTick
    \/ \E r \in RefIds : ValidateAcrossTick(r)

SpecClock == Init /\ [][NextClock]_vars

----------------------------------------------------------------------------
(* ReferralService.delete (services/referral_service.py 290-298).  Row ids *)
(* are positions in the tables, so a deleted row leaves a blank behind     *)
(* that no query matches; ids are not handed out again.                    *)

GoneItem ==
    [NewItem("none", NoId, NoId, "medium", NoTime)
        EXCEPT !.status = "deleted", !.due_at = NoTime]

GoneReferral ==
    [NewReferral(NoId, "medium", 0, 0) EXCEPT !.status = "deleted"]

Exists(db, r) == r \in DOMAIN db.referrals /\ db.referrals[r] # GoneReferral

(* models/referral.py 314-316: Referral.queue_items *)
ReferralItems(db, r) ==
    {i \in DOMAIN db.items : db.items[i].referral_id = r}

delete_leaves_finished_items(db, r, loaded) ==
    IF ~Exists(db, r) THEN Ok(db, r, NoId)
    ELSE IF ReferralItems(db, r) # loaded THEN Raise(db, db, NoId)
    ELSE Ok([db EXCEPT
               !.referrals[r] = GoneReferral,
               !.items = [i \in DOMAIN db.items |->
                            IF i \in loaded /\ db.items[i].status \in NonTerminal
                            THEN GoneItem ELSE db.items[i]]],
            r, NoId)

(* lines 296-297: session.delete cascades to the loaded line items and     *)
(* queue items (cascade="all, delete-orphan"), the flush deletes them and  *)
(* then the referral row.  A queue item committed by another session since *)
(* the load still references the referral: the foreign key (enforced,      *)
(* models/base.py 29-35) refuses the DELETE and the handler raises.  A row *)
(* that another session deleted meanwhile is a DELETE of no row.           *)
delete(db, r, loaded) ==
    IF ~Exists(db, r) THEN Ok(db, r, NoId)
    ELSE IF ReferralItems(db, r) # loaded THEN Raise(db, db, NoId)
    ELSE Ok([db EXCEPT
               !.referrals[r] = GoneReferral,
               !.items = [i \in DOMAIN db.items |->
                            IF i \in loaded THEN GoneItem ELSE db.items[i]]],
            r, NoId)

(* lines 292-296: the referral and its collections are loaded *)
DeleteRead(u, r) ==
    /\ sess[u].pc = "idle"
    /\ Exists(DB, r)
    /\ sess' = [sess EXCEPT ![u] =
                  [SessIdle EXCEPT !.pc = "deleting", !.ref = r,
                                   !.result = Len(items)]]
    /\ UNCHANGED <<dim, zip, ext, run, queues, emails, items, referrals, ing, last, now>>

(* line 297 *)
DeleteCommit(u) ==
    /\ sess[u].pc = "deleting"
    /\ LET r == sess[u].ref
           loaded == {i \in ReferralItems(DB, r) : i <= sess[u].result}
           out == delete(DB, r, loaded)
       IN  /\ Commit(out)
           /\ last' = Trace("delete_referral", NoId, u, out)
    /\ sess' = [sess EXCEPT ![u] = SessIdle]
    /\ UNCHANGED <<dim, zip, ext, run, queues, ing, now>>

NextDelete ==
    \/ Ingest
    \/ \E r \in RefIds, u \in Users : ClaimIntake(r, u)
    \/ \E r \in RefIds : Exists(DB, r) /\ Validate(r)
    \/ \E r \in RefIds : Exists(DB, r) /\ CompleteScheduling(r)
    \/ \E r \in RefIds, u \in Users : DeleteRead(u, r)
    \/ \E u \in Users : DeleteCommit(u)

SpecDelete == Init /\ [][NextDelete]_vars

----------------------------------------------------------------------------
(* Extraction: the LLM's JSON response, ExtractionResult, the reasoning    *)
(* step and the FileMaker converter, over the fields that take part in the *)
(* derivations (name split, address parse, ICD-10 validation).             *)

LlmFields ==
    {"claimant_name", "claimant_first_name", "claimant_address",
     "claimant_address_1", "claimant_city", "claimant_state", "icd10_code"}

AllFields == LlmFields \cup {"validated_icd10"}

(* no ExtractedField; in a response: the key is missing, its entry is null *)
(* or its value is null                                                    *)
None == [value |-> "", confidence |-> 0]

Values(f) ==
    CASE f = "claimant_name" -> {"John Smith"}
      [] f = "claimant_first_name" -> {"Jon"}
      [] f = "claimant_address" ->
            {"1 Main St, Springfield, IL 62701", "1 Main St"}
      [] f = "claimant_address_1" -> {"9 Elm Rd"}
      [] f = "claimant_city" -> {"Austin"}
      [] f = "claimant_state" -> {"Texas"}
      [] OTHER -> {"M54.5"}

(* confidences the response gives: none, one under the floor of 50 that    *)
(* the prompt asks for, one near the top                                   *)
Confs(f) ==
    IF f \in {"claimant_name", "icd10_code"} THEN {0, 3, 98} ELSE {3, 98}

Entries(f) ==
    {None} \cup {[value |-> v, confidence |-> c] : v \in Values(f), c \in Confs(f)}

Responses ==
    [claimant_name : Entries("claimant_name"),
     claimant_first_name : Entries("claimant_first_name"),
     claimant_address : Entries("claimant_address"),
     claimant_address_1 : Entries("claimant_address_1"),
     claimant_city : Entries("claimant_city"),
     claimant_state : Entries("claimant_state"),
     icd10_code : Entries("icd10_code")]

(* extraction_service.py 582-593: the first name of the split *)
_split_name(v) == IF v = "John Smith" THEN "John" ELSE ""

(* extraction_service.py 595-613, filemaker_conversion.py 323-360 *)
_parse_address(v) ==
    CASE v = "1 Main St, Springfield, IL 62701" ->
            [address_1 |-> "1 Main St", city |-> "Springfield", state |-> "IL"]
      [] v = "1 Main St" -> [address_1 |-> "1 Main St", city |-> "", state |-> ""]
      [] OTHER -> [address_1 |-> "", city |-> "", state |-> ""]

(* extraction_service.py 615-637, filemaker_conversion.py 220-234: a      *)
(* state name becomes its code, a two-letter code and "" stay              *)
_normalize_state(v) == IF v = "Texas" THEN "TX" ELSE v

Derived(src, v, delta) ==
    IF v = "" THEN None ELSE [value |-> v, confidence |-> src.confidence + delta]

(* extraction_service.py 502-580 *)
_parse_extraction_response(data) ==
    LET r1 == [f \in AllFields |->
                 IF f \in LlmFields /\ data[f] # None /\ data[f].value # ""
                 THEN data[f] ELSE None]
        first == _split_name(r1["claimant_name"].value)
        r2 == IF r1["claimant_name"] # None /\ r1["claimant_first_name"] = None
                 /\ first # ""
              THEN [r1 EXCEPT !["claimant_first_name"] =
                       Derived(r1["claimant_name"], first, 0 - 5)]
              ELSE r1
        adr == r2["claimant_address"]
        p == _parse_address(adr.value)
    IN  IF adr # None /\ r2["claimant_city"] = None
        THEN [f \in AllFields |->
                CASE f = "claimant_address_1" /\ p.address_1 # "" ->
                        Derived(adr, p.address_1, 0 - 10)
                  [] f = "claimant_city" /\ p.city # "" ->
                        Derived(adr, p.city, 0 - 10)
                  [] f = "claimant_state" /\ p.state # "" ->
                        Derived(adr, _normalize_state(p.state), 0 - 10)
                  [] OTHER -> r2[f]]
        ELSE r2

(* extraction_service.py 170-182: an entry for every field that is set *)
to_dict(res) == [f \in AllFields |-> IF res[f] # None THEN res[f] ELSE None]

RECURSIVE Sum(_, _)

Sum(fn, S) ==
    IF S = {} THEN 0
    ELSE LET x == CHOOSE y \in S : TRUE
         IN  fn[x] + Sum(fn, S \ {x})

(* the mean sum / n as the pair of its terms *)
Mean(fn, S) == [sum |-> Sum(fn, S), n |-> Cardinality(S)]

Zero == [sum |-> 0, n |-> 1]

(* extraction_service.py 194-201 *)
get_overall_confidence(res) ==
    LET confidences == {f \in AllFields : res[f] # None /\ res[f].confidence > 0}
    IN  IF confidences = {} THEN Zero
        ELSE Mean([f \in AllFields |-> res[f].confidence], confidences)

(* reasoning_service.py 90-108: validated_icd10 of a code that validates *)
_enrich_icd10(res, valid) ==
    IF res["icd10_code"] = None \/ res["icd10_code"].value = "" \/ ~valid THEN res
    ELSE [res EXCEPT !["validated_icd10"] =
            [value |-> res["icd10_code"].value,
             confidence |-> Min(res["icd10_code"].confidence + 5, 100)]]

(* filemaker_conversion.py 618-628 *)
_get_value(x, f) == IF x[f] # None THEN x[f].value ELSE ""

_get_confidence(x, f) == IF x[f] # None THEN x[f].confidence ELSE 0

NoFm ==
    [first_name |-> "", address_1 |-> "", city |-> "", state |-> "",
     confidence_scores |-> <<>>, extraction_confidence |-> Zero]

(* filemaker_conversion.py 374-616 *)
convert(x) ==
    LET first == _get_value(x, "claimant_first_name")
        name == _get_value(x, "claimant_name")
        addr1 == _get_value(x, "claimant_address_1")
        city == _get_value(x, "claimant_city")
        state == _get_value(x, "claimant_state")
        icd == _get_value(x, "icd10_code")
        full == _get_value(x, "claimant_address")
        p == _parse_address(full)
        fallback == full # "" /\ addr1 = ""
        keys == {k \in {"first_name", "address_1", "city", "state", "icd10_code"} :
                   CASE k = "first_name" -> first # "" \/ name # ""
                     [] k = "address_1" -> addr1 # ""
                     [] k = "city" -> city # ""
                     [] k = "state" -> state # ""
                     [] OTHER -> icd # ""}
        scores == [k \in keys |->
                   CASE k = "first_name" ->
                          IF first # ""
                          THEN _get_confidence(x, "claimant_first_name")
                          ELSE _get_confidence(x, "claimant_name") - 5
                     [] k = "address_1" -> _get_confidence(x, "claimant_address_1")
                     [] k = "city" -> _get_confidence(x, "claimant_city")
                     [] k = "state" -> _get_confidence(x, "claimant_state")
                     [] OTHER -> _get_confidence(x, "icd10_code")]
    IN  [first_name |-> IF first # "" THEN first ELSE _split_name(name),
         address_1 |-> IF fallback THEN p.address_1 ELSE addr1,
         city |-> IF fallback /\ city = "" THEN p.city ELSE city,
         state |-> IF fallback /\ state = ""
                   THEN _normalize_state(p.state) ELSE _normalize_state(state),
         confidence_scores |-> scores,
         extraction_confidence |->
            IF keys = {} THEN Zero ELSE Mean(scores, keys)]

NoAddress == [address_1 |-> "", city |-> "", state |-> ""]

(* email_ingestion.py 291-311: the address columns of the new referral *)
_process_email_address(x) ==
    LET addr1 == _get_value(x, "claimant_address_1")
        city == _get_value(x, "claimant_city")
        state == _get_value(x, "claimant_state")
        full == _get_value(x, "claimant_address")
        p == _parse_address(full)
    IN  IF city = "" /\ full # ""
        THEN [address_1 |-> IF addr1 # "" THEN addr1 ELSE p.address_1,
              city |-> p.city,
              state |-> _normalize_state(_normalize_state(p.state))]
        ELSE [address_1 |-> addr1, city |-> city,
              state |-> _normalize_state(state)]

NoResult == [f \in AllFields |-> None]

InitExtract ==
    /\ queues = QueueTypes
    /\ emails = <<>>
    /\ items = <<>>
    /\ referrals = <<>>
    /\ ing = Idle
    /\ sess = [u \in Users |-> SessIdle]
    /\ last = NoOp
    /\ now = 0
    /\ run = [p \in Pollers |-> PassIdle]
    /\ ext \in {[pc |-> "response", data |-> d, result |-> NoResult,
                  fm |-> NoFm, address |-> NoAddress] : d \in Responses}
    /\ dim = NoLoad
    /\ zip = NoZip

Frame == UNCHANGED <<queues, emails, items, referrals, ing, sess, last, now, run,
                    dim, zip>>

(* extract_from_email, lines 466-467 *)
Parse ==
    /\ ext.pc = "response"
    /\ ext' = [ext EXCEPT !.pc = "parsed",
                          !.result = _parse_extraction_response(ext.data)]
    /\ Frame

(* ReasoningService.enrich; the reference data knows the code or not *)
Enrich(valid) ==
    /\ ext.pc = "parsed"
    /\ ext' = [ext EXCEPT !.pc = "enriched",
                          !.result = _enrich_icd10(ext.result, valid)]
    /\ Frame

Convert ==
    /\ ext.pc \in {"parsed", "enriched"}
    /\ ext' = [ext EXCEPT !.pc = "converted",
                          !.fm = convert(to_dict(ext.result))]
    /\ Frame

BuildReferral ==
    /\ ext.pc = "parsed"
    /\ ext' = [ext EXCEPT !.pc = "referral",
                          !.address = _process_email_address(to_dict(ext.result))]
    /\ Frame

NextExtract ==
    \/ Parse
    \/ \E valid \in BOOLEAN : Enrich(valid)
    \/ Convert
    \/ BuildReferral

SpecExtract == InitExtract /\ [][NextExtract]_vars

----------------------------------------------------------------------------
(* Reference data: bulk CSV load (services/reference_data.py 277-367),     *)
(* called by scripts/load_reference_data.py main() inside session_scope.   *)
(* A dimension table is the sequence of its committed rows in insertion    *)
(* order; a file is the sequence of the rows csv.DictReader yields.        *)

MaxRows == 2

(* runs of the loading script *)
MaxLoads == 2

(* code column values of a file row; "" is a blank code *)
Codes == {"", "m54.5", "M54.5"}

(* str.upper() / func.upper() *)
Upper(c) == IF c = "m54.5" THEN "M54.5" ELSE c

(* description column: a short row leaves the key at restval None *)
Missing == "None"

Descriptions == {"a", "b", Missing}

Rows == [code : Codes, description : Descriptions]

RECURSIVE FilesOfLen(_)
FilesOfLen(n) ==
    IF n = 0 THEN {<<>>}
    ELSE {Append(f, r) : f \in FilesOfLen(n - 1), r \in Rows}

Files == UNION {FilesOfLen(n) : n \in 0 .. MaxRows}

DimTables == {"icd10", "procedures"}

(* query(...).filter(func.upper(code) == code.upper()).first(): the session *)
(* does not autoflush (models/base.py 39), the query sees committed rows    *)
Existing(table, code) ==
    LET S == {i \in DOMAIN table : Upper(table[i].code) = Upper(code)}
    IN  IF S = {} THEN NoId ELSE CHOOSE i \in S : \A j \in S : i <= j

(* the body of the for loop, lines 293-317: s is the session (rows as the  *)
(* identity map holds them, objects added, count, raised)                   *)
load_row(s, row) ==
    IF s.raised \/ row.code = "" THEN s
    ELSE IF row.description = Missing THEN [s EXCEPT !.raised = TRUE]
    ELSE LET i == Existing(s.rows, row.code)
         IN  IF i # NoId
             THEN [s EXCEPT !.rows[i].description = row.description,
                            !.rows[i].is_active = TRUE,
                            !.count = @ + 1]
             ELSE [s EXCEPT !.added = Append(@, [code |-> row.code,
                                                 description |-> row.description,
                                                 is_active |-> TRUE]),
                            !.count = @ + 1]

RECURSIVE load_rows(_, _)
load_rows(s, file) ==
    IF file = <<>> THEN s ELSE load_rows(load_row(s, Head(file)), Tail(file))

(* UNIQUE(code) of dim_icd10 / dim_procedure_code, compared exactly *)
UniqueCodes(rows) ==
    \A i, j \in DOMAIN rows : rows[i].code = rows[j].code => i = j

(* load_icd10_from_csv / load_procedures_from_csv: the loop, then the one  *)
(* commit of line 319; a raise leaves the transaction to session_scope's   *)
(* rollback, a failed flush rolls the transaction back                      *)
load_from_csv(table, file) ==
    LET s == load_rows([rows |-> table, added |-> <<>>, count |-> 0,
                        raised |-> FALSE], file)
    IN  IF s.raised \/ ~UniqueCodes(s.rows \o s.added)
        THEN [table |-> table, raised |-> TRUE, count |-> 0]
        ELSE [table |-> s.rows \o s.added, raised |-> FALSE, count |-> s.count]

(* main(), lines 190-202: one load per file given on the command line *)
LoadCsv(kind, file) ==
    LET out == load_from_csv(dim[kind], file)
    IN  /\ dim.loads < MaxLoads
        /\ dim' = [dim EXCEPT ![kind] = out.table, !.kind = kind, !.file = file,
                              !.before = dim[kind], !.raised = out.raised,
                              !.count = out.count, !.loads = @ + 1]
        /\ UNCHANGED <<queues, emails, items, referrals, ing, sess, last, now,
                       run, ext, zip>>

NextLoad == \E kind \in DimTables, file \in Files : LoadCsv(kind, file)

(* init_db() has run: both dimension tables exist and are empty *)
InitLoad == Init /\ queues = QueueTypes

SpecLoad == InitLoad /\ [][NextLoad]_vars

----------------------------------------------------------------------------
(* FieldTransformer.normalize_zip (services/filemaker_conversion.py        *)
(* 236-257).  A string is the sequence of its characters.                  *)

MaxZipLen == 10

(* one digit and one separator stand for the two classes \d and \D *)
Digits == {"1"}

ZipChars == Digits \cup {"-"}

RECURSIVE StringsOfLen(_)
StringsOfLen(n) ==
    IF n = 0 THEN {<<>>}
    ELSE {Append(s, c) : s \in StringsOfLen(n - 1), c \in ZipChars}

ZipInputs(len) == UNION {StringsOfLen(n) : n \in 0 .. len}

(* re.sub(r'\D', '', s) *)
RECURSIVE DigitsOnly(_)
DigitsOnly(s) ==
    IF s = <<>> THEN <<>>
    ELSE IF Head(s) \in Digits THEN <<Head(s)>> \o DigitsOnly(Tail(s))
    ELSE DigitsOnly(Tail(s))

(* a variant that cuts one digit off an over-long code *)
normalize_zip_drops_last_digit(zip_code) ==
    LET digits == DigitsOnly(zip_code)
    IN  IF zip_code = <<>> THEN <<>>
        ELSE IF Len(digits) \in {5, 9} THEN digits
        ELSE IF Len(digits) > 5 THEN SubSeq(digits, 1, Len(digits) - 1)
        ELSE zip_code

normalize_zip(zip_code) ==
    LET digits == DigitsOnly(zip_code)
    IN  IF zip_code = <<>> THEN <<>>
        ELSE IF Len(digits) \in {5, 9} THEN digits
        ELSE IF Len(digits) > 5 THEN SubSeq(digits, 1, 5)
        ELSE zip_code

InitZip ==
    /\ queues = QueueTypes
    /\ emails = <<>>
    /\ items = <<>>
    /\ referrals = <<>>
    /\ ing = Idle
    /\ sess = [u \in Users |-> SessIdle]
    /\ last = NoOp
    /\ now = 0
    /\ run = [p \in Pollers |-> PassIdle]
    /\ ext = NoExtraction
    /\ dim = NoLoad
    /\ zip \in {[pc |-> "input", x |-> x, once |-> <<>>, twice |-> <<>>] : x \in ZipInputs(MaxZipLen)}

(* convert(), line 494: fm.patient_address_zip = normalize_zip(zip_code) *)
NormalizeZip ==
    /\ zip.pc = "input"
    /\ zip' = [zip EXCEPT !.pc = "once", !.once = normalize_zip(zip.x)]
    /\ UNCHANGED <<queues, emails, items, referrals, ing, sess, last, now,
                   run, ext, dim>>

(* _process_email, line 311, applied to a zip that was normalised before *)
NormalizeZipAgain ==
    /\ zip.pc = "once"
    /\ zip' = [zip EXCEPT !.pc = "twice", !.twice = normalize_zip(zip.once)]
    /\ UNCHANGED <<queues, emails, items, referrals, ing, sess, last, now,
                   run, ext, dim>>

NextZip == NormalizeZip \/ NormalizeZipAgain

SpecZip == InitZip /\ [][NextZip]_vars

----------------------------------------------------------------------------
(* The desk: the operations of a worker on a referral, with the worker the *)
(* operation was invoked by (validated_by, rejected_by, scheduled_by)      *)

(* lines 286-334 *)
ValidateBy(r, u) ==
    /\ r \in DOMAIN referrals
    /\ Len(items) < MaxItems
    /\ \E i \in First(CurrentItems(DB, queues, r, "intake")) :
         LET out == validate_and_queue_for_scheduling(DB, queues, r, i, now)
         IN  /\ Commit(out)
             /\ last' = Trace("validate_and_queue_for_scheduling", NoId, u, out)
    /\ UNCHANGED <<dim, zip, ext, run, queues, ing, sess, now>>

(* lines 336-351 *)
RejectBy(r, u) ==
    /\ r \in DOMAIN referrals
    /\ \E i \in First(CurrentItems(DB, queues, r, "intake")) :
         LET out == reject_referral(DB, r, i, now)
         IN  /\ Commit(out)
             /\ last' = Trace("reject_referral", NoId, u, out)
    /\ UNCHANGED <<dim, zip, ext, run, queues, ing, sess, now>>

(* lines 382-400 *)
CompleteSchedulingBy(r, u) ==
    /\ r \in DOMAIN referrals
    /\ \E i \in First(CurrentItems(DB, queues, r, "care_coordination")) :
         LET out == complete_scheduling(DB, r, i, now)
         IN  /\ Commit(out)
             /\ last' = Trace("complete_scheduling", NoId, u, out)
    /\ UNCHANGED <<dim, zip, ext, run, queues, ing, sess, now>>

NextDesk ==
    \/ Ingest
    \/ \E r \in RefIds, u \in Users : ClaimIntake(r, u)
    \/ \E r \in RefIds, u \in Users : ClaimCareCoordination(r, u)
    \/ \E id \in ItemIds, u \in Users : Release(id, u)
    \/ \E r \in RefIds, u \in Users : ValidateBy(r, u)
    \/ \E r \in RefIds, u \in Users : RejectBy(r, u)
    \/ \E r \in RefIds, u \in Users : CompleteSchedulingBy(r, u)

SpecDesk == Init /\ [][NextDesk]_vars

----------------------------------------------------------------------------
(* POST /api/queue-items/{item_id}/claim (api/main.py 1155-1206): the item *)
(* is looked up by id, and the claim is made by the referral of that item  *)

claim_queue_item(db, qs, id, u, i, t) ==
    IF id \notin DOMAIN db.items THEN Raise(db, db, NoId)
    ELSE IF db.items[id].queue \notin ClaimTypes THEN Raise(db, db, NoId)
    ELSE LET out == Claim(db, db.items[id].queue, u, i, t)
         IN  IF out.result = NoId THEN Raise(db, db, i) ELSE out

ApiClaim(id, u) ==
    /\ LET S == IF id \in DOMAIN items
                THEN CurrentItems(DB, queues, items[id].referral_id, items[id].queue)
                ELSE {}
       IN  \E i \in First(S) :
             LET out == claim_queue_item(DB, queues, id, u, i, now)
             IN  /\ Commit(out)
                 /\ last' = Trace("claim_queue_item", id, u, out)
    /\ UNCHANGED <<dim, zip, ext, run, queues, ing, sess, now>>

NextApi ==
    \/ Ingest
    \/ \E r \in RefIds : Validate(r)
    \/ \E r \in RefIds : CompleteScheduling(r)
    \/ \E id \in ItemIds, u \in Users : ApiClaim(id, u)
    \/ \E id \in ItemIds, u \in Users : Release(id, u)

SpecApi == Init /\ [][NextApi]_vars

----------------------------------------------------------------------------
(* Properties *)

ClaimOps == {"claim_intake_item", "claim_care_coordination_item"}

Successful(i) == {u \in Users : sess[u].pc = "done" /\ sess[u].result = i}

(* C1: of the claims invoked concurrently for one pending item at most one *)
(* succeeds, and the item is assigned to that caller.                      *)
C1_AtMostOneClaimant ==
    \A i \in DOMAIN items :
        /\ Cardinality(Successful(i)) <= 1
        /\ \A u \in Successful(i) : items[i].assigned_to = u

(* C2: every (email or referral, queue) pair has at most one QueueItem     *)
(* that is pending or in_progress.                                         *)
C2_OneNonTerminalPerPair ==
    \A i, j \in DOMAIN items :
        ( /\ i # j
          /\ items[i].status \in NonTerminal
          /\ items[j].status \in NonTerminal
          /\ items[i].queue = items[j].queue
          /\ items[i].email_id = items[j].email_id )
        => items[i].referral_id # items[j].referral_id

ItemStep(from, to, op) ==
    \/ from = "pending" /\ to = "in_progress"
    \/ from = "in_progress" /\ to \in Terminal
    \/ from = "in_progress" /\ to = "pending" /\ op = "release_queue_item"

(* C3: a QueueItem's status changes only pending -> in_progress,           *)
(* in_progress -> completed | failed | skipped, or in_progress -> pending  *)
(* by release; never pending -> terminal.                                  *)
C3_ItemTransitions ==
    [][\A i \in DOMAIN items :
          items'[i].status # items[i].status
          => ItemStep(items[i].status, items'[i].status, last'.op)]_vars

(* C4: complete_extraction_and_queue_for_intake commits all of its effects *)
(* (extraction item completed, email processed, referral linked and in     *)
(* pending_validation, line items numbered, one pending intake item) or,   *)
(* when it raises, none of them.                                           *)
C4_CompleteAllOrNothing ==
    [][(ing.pc = "started" /\ ing'.pc = "idle" /\
        last'.op = "complete_extraction_and_queue_for_intake") =>
          LET e == ing.email
              x == last'.found
              r == Len(referrals) + 1
              q == Len(items) + 1
          IN  \/ /\ last'.raised
                 /\ UNCHANGED <<emails, items, referrals>>
              \/ /\ ~last'.raised
                 /\ emails'[e].status = "processed"
                 /\ x # NoId => items'[x].status = "completed"
                 /\ Len(referrals') = r
                 /\ referrals'[r].email_id = e
                 /\ referrals'[r].status = "pending_validation"
                 /\ \A k \in DOMAIN referrals'[r].line_numbers :
                        referrals'[r].line_numbers[k] = k
                 /\ Len(items') = q
                 /\ items'[q].queue = "intake"
                 /\ items'[q].referral_id = r
                 /\ items'[q].status = "pending"]_vars

C4_Witness ==
    /\ last.op = "complete_extraction_and_queue_for_intake"
    /\ last.raised
    /\ last.found # NoId
    /\ items[last.found].status = "in_progress"
    /\ \E e \in DOMAIN emails : emails[e].status = "extraction_in_progress"
    /\ referrals = <<>>

(* C5: once the pipeline is through with an email, the email is processed  *)
(* or extraction_failed; none is left in received, pending_extraction or   *)
(* extraction_in_progress.                                                 *)
C5_NoEmailLeftUnfinished ==
    ing.pc = "idle" =>
        \A e \in DOMAIN emails :
            emails[e].status \in {"processed", "extraction_failed"}

(* C6: a claim that finds the referral's current item in_progress returns  *)
(* nothing, does not raise and changes neither the item nor the referral,  *)
(* whoever calls.                                                          *)
C6_ClaimInProgressNoEffect ==
    \A qt \in ClaimTypes, r \in RefIds, u \in Users :
        \A i \in CurrentItems(DB, queues, r, qt) :
            items[i].status = "in_progress" =>
                LET out == IF qt = "intake"
                           THEN claim_intake_item(DB, u, i, now)
                           ELSE claim_care_coordination_item(DB, u, i, now)
                IN  /\ out.result = NoId
                    /\ ~out.raised
                    /\ out.db = DB

(* a claim has put the referral's current item in progress: the next claim *)
(* of the same referral, by the assignee or by anyone else, finds it so    *)
C6_Witness ==
    /\ last.op \in ClaimOps
    /\ last.result # NoId
    /\ items[last.result].status = "in_progress"
    /\ items[last.result].assigned_to = last.user
    /\ \E qt \in ClaimTypes :
          last.result \in CurrentItems(DB, queues,
                                       items[last.result].referral_id, qt)

(* C7: release_queue_item succeeds, resetting the item to pending with its *)
(* assignment cleared, only when the item is in_progress and assigned to   *)
(* the caller; every other call returns false, does not raise and changes  *)
(* nothing.                                                                *)
C7_ReleaseOnlyByAssignee ==
    \A id \in ItemIds, u \in Users :
        LET out  == release_queue_item(DB, id, u)
            mine == /\ id \in DOMAIN items
                    /\ items[id].status = "in_progress"
                    /\ items[id].assigned_to = u
        IN  /\ ~out.raised
            /\ out.db.emails = emails
            /\ out.db.referrals = referrals
            /\ IF mine
               THEN /\ out.result
                    /\ out.db.items[id].status = "pending"
                    /\ out.db.items[id].assigned_to = NoUser
                    /\ out.db.items[id].assigned_at = NoTime
                    /\ \A j \in DOMAIN items :
                          j # id => out.db.items[j] = items[j]
               ELSE /\ ~out.result
                    /\ out.db = DB

C7_Witness ==
    /\ last.op = "release_queue_item"
    /\ last.result # NoId
    /\ last.result = last.item
    /\ last.user \in Users
    /\ items[last.item].status = "pending"
    /\ items[last.item].assigned_to = NoUser
    /\ \E j \in DOMAIN items :
          items[j].status = "in_progress" /\ items[j].assigned_to # last.user

C9_NoExtractionCancel ==
    [][\A i \in DOMAIN items :
          (items[i].queue = "extraction" /\ items[i].status = "in_progress")
          => items'[i].status \in {"in_progress", "completed", "failed"}]_vars

C9_Witness ==
    /\ last.op = "fail_extraction"
    /\ \E i \in DOMAIN items :
          /\ items[i].queue = "extraction"
          /\ items[i].status = "failed"
          /\ items[i].attempt_count = 1
          /\ items[i].assigned_to = NoUser

EmailStepSpec(from, to, op) ==
    \/ from = "received" /\ to = "pending_extraction"
          /\ op = "queue_email_for_extraction"
    \/ from = "pending_extraction" /\ to = "extraction_in_progress"
          /\ op = "start_extraction"
    \/ from = "extraction_in_progress" /\ to = "extraction_complete"
          /\ op = "complete_extraction_and_queue_for_intake"
    \/ from = "extraction_complete" /\ to = "processed"
          /\ op = "complete_extraction_and_queue_for_intake"
    \/ from = "extraction_in_progress" /\ to = "extraction_failed"
          /\ op = "fail_extraction"

EmailStepCode(from, to, op) ==
    \/ from = "received" /\ to = "pending_extraction"
          /\ op = "queue_email_for_extraction"
    \/ from = "pending_extraction" /\ to = "extraction_in_progress"
          /\ op = "start_extraction"
    \/ from = "extraction_in_progress" /\ to = "processed"
          /\ op = "complete_extraction_and_queue_for_intake"
    \/ from = "extraction_in_progress" /\ to = "extraction_failed"
          /\ op = "fail_extraction"

(* the status an email had before the step; a row the step created was     *)
(* constructed as received                                                  *)
EmailBefore(e) == IF e \in DOMAIN emails THEN emails[e].status ELSE "received"

----------------------------------------------------------------------------
(* Referral status *)

MainLine == <<"draft", "pending_validation", "validated",
              "pending_scheduling", "scheduled", "in_progress", "completed">>

Rank(st) == CHOOSE k \in DOMAIN MainLine : MainLine[k] = st

SideExits == {"rejected", "on_hold"}

(* forward along the main line (skipping allowed), a side exit from a      *)
(* state before completed, or the way back from on_hold                    *)
ReferralStep(from, to) ==
    \/ /\ from \in Range(MainLine)
       /\ to \in Range(MainLine)
       /\ Rank(from) < Rank(to)
    \/ /\ from \in Range(MainLine) \ {"completed"}
       /\ to \in SideExits
    \/ /\ from = "on_hold"
       /\ to \in (Range(MainLine) \ {"completed"}) \cup {"rejected"}

(* C11: every change of a referral's status goes forward along draft ->    *)
(* pending_validation -> validated -> pending_scheduling -> scheduled ->   *)
(* in_progress -> completed or leaves to rejected or on_hold from a state  *)
(* before completed; it never goes backward and a completed referral is    *)
(* never rejected or validated again.                                      *)
C11_ReferralTransitions ==
    [][\A r \in DOMAIN referrals :
          referrals'[r].status # referrals[r].status
          => ReferralStep(referrals[r].status, referrals'[r].status)]_vars

(* C12: a rejected referral has no pending or in_progress QueueItem, gets  *)
(* no new QueueItem from any later operation and stays rejected.           *)
C12_RejectedTerminates ==
    [][/\ \A r \in DOMAIN referrals' :
            referrals'[r].status = "rejected"
            => \A i \in DOMAIN items' :
                  items'[i].referral_id = r => items'[i].status \in Terminal
       /\ \A r \in DOMAIN referrals :
            referrals[r].status = "rejected"
            => /\ referrals'[r].status = "rejected"
               /\ \A i \in DOMAIN items' :
                     items'[i].referral_id = r => i \in DOMAIN items]_vars

C16_LlmFailureRecorded ==
    [][(queues = QueueTypes /\ ing.pc = "llm_failed" /\ ing'.pc = "idle") =>
          /\ ~last'.raised
          /\ emails'[ing.email].status = "extraction_failed"
          /\ \A i \in DOMAIN items :
                (items[i].email_id = ing.email /\ items[i].queue = "extraction")
                => items'[i].status = "failed" /\ items'[i].last_error]_vars

RECURSIVE SumAttempts(_, _, _)
(* total attempt_count of the Extraction items of email e among the first  *)
(* n rows of its                                                           *)
SumAttempts(its, e, n) ==
    IF n = 0 THEN 0
    ELSE SumAttempts(its, e, n - 1) +
         (IF its[n].email_id = e /\ its[n].queue = "extraction"
          THEN its[n].attempt_count ELSE 0)

(* C17: start_extraction moves the email's pending Extraction item to      *)
(* in_progress and adds exactly one to the item's attempt_count and to the *)
(* email's extraction_attempts; in every state an email's                  *)
(* extraction_attempts is the total attempt_count of its Extraction items. *)
C17_AttemptsAgree ==
    /\ \A e \in DOMAIN emails :
          emails[e].extraction_attempts = SumAttempts(items, e, Len(items))
    /\ \A e \in DOMAIN emails :
          \A i \in EmailItems(DB, e, "pending") :
              LET out == start_extraction(DB, e, i, now)
              IN  /\ ~out.raised
                  /\ out.db.items[i].status = "in_progress"
                  /\ out.db.items[i].attempt_count = items[i].attempt_count + 1
                  /\ out.db.emails[e].extraction_attempts =
                         emails[e].extraction_attempts + 1
                  /\ \A j \in DOMAIN items : j # i => out.db.items[j] = items[j]

C17_Witness ==
    /\ last.op = "start_extraction"
    /\ last.result # NoId
    /\ items[last.result].queue = "extraction"
    /\ items[last.result].status = "in_progress"
    /\ items[last.result].attempt_count = 1
    /\ emails[items[last.result].email_id].extraction_attempts = 1

ExtractionItemsOf(e) ==
    {i \in DOMAIN items :
        items[i].email_id = e /\ items[i].queue = "extraction"}

ReferralsOf(e) == {r \in DOMAIN referrals : referrals[r].email_id = e}

IntakeItemsOf(r) ==
    {i \in DOMAIN items :
        items[i].referral_id = r /\ items[i].queue = "intake"}

(* C18: an email whose ingestion completed has exactly one Extraction      *)
(* QueueItem, which is completed, and its referral has exactly one Intake  *)
(* QueueItem, which is pending when the ingestion returns.                 *)
C18_OneExtractionOneIntake ==
    /\ \A e \in DOMAIN emails :
          emails[e].status = "processed" =>
              /\ Cardinality(ExtractionItemsOf(e)) = 1
              /\ \A i \in ExtractionItemsOf(e) : items[i].status = "completed"
              /\ Cardinality(ReferralsOf(e)) = 1
              /\ \A r \in ReferralsOf(e) : Cardinality(IntakeItemsOf(r)) = 1
    /\ ( /\ last.op = "complete_extraction_and_queue_for_intake"
         /\ ~last.raised )
       => /\ last.result \in IntakeItemsOf(Len(referrals))
          /\ items[last.result].status = "pending"
          /\ emails[referrals[Len(referrals)].email_id].status = "processed"

C18_Witness ==
    /\ last.op = "complete_extraction_and_queue_for_intake"
    /\ ~last.raised
    /\ last.found # NoId
    /\ items[last.found].queue = "extraction"
    /\ items[last.found].status = "completed"
    /\ items[last.result].queue = "intake"
    /\ items[last.result].status = "pending"

(* C19: after validate_and_queue_for_scheduling returns, the referral's    *)
(* Intake QueueItem is completed, the referral is validated with           *)
(* needs_human_review false, and a new pending Care-Coordination QueueItem *)
(* of the referral exists.                                                 *)
C19_ValidatePostcondition ==
    \A r \in DOMAIN referrals :
        \A i \in First(CurrentItems(DB, queues, r, "intake")) :
            LET out == validate_and_queue_for_scheduling(DB, queues, r, i, now)
                q   == out.result
            IN  ~out.raised =>
                  /\ \A j \in IntakeItemsOf(r) :
                        out.db.items[j].status = "completed"
                  /\ out.db.referrals[r].status = "validated"
                  /\ ~out.db.referrals[r].needs_human_review
                  /\ q \notin DOMAIN items
                  /\ q \in DOMAIN out.db.items
                  /\ out.db.items[q].queue = "care_coordination"
                  /\ out.db.items[q].referral_id = r
                  /\ out.db.items[q].status = "pending"

C19_Witness ==
    /\ last.op = "validate_and_queue_for_scheduling"
    /\ ~last.raised
    /\ last.found # NoId
    /\ items[last.found].queue = "intake"
    /\ items[last.found].status = "completed"
    /\ items[last.result].queue = "care_coordination"
    /\ items[last.result].status = "pending"
    /\ referrals[items[last.result].referral_id].status = "validated"
    /\ ~referrals[items[last.result].referral_id].needs_human_review

(* C20: in every state, whatever line items were created and deleted, by  *)
(* requests one after another or overlapping, the line items of one         *)
(* referral have pairwise distinct line_numbers, each at least 1.           *)
C20_LineNumbersDistinct ==
    \A r \in DOMAIN referrals :
        LET ln == referrals[r].line_numbers
        IN  /\ \A k \in DOMAIN ln : ln[k] >= 1
            /\ \A j, k \in DOMAIN ln : j # k => ln[j] # ln[k]

Fetched == 1 .. MaxFetch

(* C14: however ingestion passes that see the same message interleave, the *)
(* message gets at most one Email, the Email at most one Extraction        *)
(* QueueItem and one Referral, and at most one pass is extracting it at a  *)
(* time; a message already recorded is skipped and nothing changes.        *)
C14_OneRecordPerMessage ==
    [][LET db == [emails |-> emails', items |-> items',
                  referrals |-> referrals']
       IN  /\ \A m \in Fetched : Cardinality(ExistingEmail(db, m)) <= 1
           /\ \A e \in DOMAIN db.emails :
                 /\ Cardinality({j \in DOMAIN db.items :
                                    db.items[j].email_id = e}) <= 1
                 /\ Cardinality({r \in DOMAIN db.referrals :
                                    db.referrals[r].email_id = e}) <= 1
                 /\ Cardinality({p \in Pollers :
                                    /\ run'[p].email = e
                                    /\ run'[p].pc = "started"}) <= 1
           /\ \A p \in Pollers :
                 ( /\ run[p].pc = "check"
                   /\ ExistingEmail(DB, run[p].i) # {}
                   /\ run'[p] # run[p] )
                 => /\ UNCHANGED <<emails, items, referrals>>
                    /\ run'[p] = Returned(run[p])]_vars

(* one pass holds the Email of message 1 that it created; the other has    *)
(* been refused the same INSERT and gone on to the next message            *)
C14_Witness ==
    \E p, q \in Pollers :
        /\ p # q
        /\ "extraction" \in queues
        /\ run[q].email # NoId
        /\ emails[run[q].email].graph_id = 1
        /\ run[p].i = 2
        /\ run[p].errors = 1
        /\ run[p].processed = 0

----------------------------------------------------------------------------
(* Queue listings and the clock *)

Limits == 1 .. MaxItems

SamePriority(db) ==
    [db EXCEPT !.items = [i \in DOMAIN db.items |->
                            [db.items[i] EXCEPT !.priority = "medium"]]]

Overdue(it, t) ==
    it.due_at # NoTime /\ it.due_at < t /\ it.status \in NonTerminal

(* C22: an item is reported overdue, by its is_overdue attribute, by       *)
(* get_overdue_items and by the overdue count, exactly when its due_at is  *)
(* set and in the past and its status is pending or in_progress.           *)
C22_OverdueExactly ==
    /\ \A i \in DOMAIN items : is_overdue(items[i], now) <=> Overdue(items[i], now)
    /\ \A qt \in queues :
         /\ get_overdue_items(DB, queues, qt, now)
              = {i \in DOMAIN items :
                   items[i].queue = qt /\ Overdue(items[i], now)}
         /\ OverdueCount(DB, queues, qt, now)
              = Cardinality({i \in DOMAIN items :
                   items[i].queue = qt /\ Overdue(items[i], now)})

(* C23: every item's due_at equals its entered_queue_at plus the SLA of    *)
(* its queue (every seeded queue has one), and claim, release and          *)
(* completion leave entered_queue_at and due_at as they were.              *)
C23_DueAtIsEnteredPlusSla ==
    [][/\ \A i \in DOMAIN items' :
            items'[i].due_at
              = items'[i].entered_queue_at + Sla(items'[i].queue)
       /\ \A i \in DOMAIN items :
            /\ i \in DOMAIN items'
            /\ items'[i].entered_queue_at = items[i].entered_queue_at
            /\ items'[i].due_at = items[i].due_at]_vars

----------------------------------------------------------------------------
(* Deletion *)

----------------------------------------------------------------------------
(* Operations on a referral id that does not exist *)

(* C25: a line-item operation or a queue operation given a referral id     *)
(* that does not exist raises and changes nothing.                         *)
C25_MissingReferralRaises ==
    /\ \A r \in RefIds \ DOMAIN referrals, u \in Users :
         /\ \A i \in First(CurrentItems(DB, queues, r, "intake")) :
              LET out == claim_intake_item(DB, u, i, now)
              IN  out.raised /\ out.db = DB
         /\ \A i \in First(CurrentItems(DB, queues, r, "care_coordination")) :
              LET out == claim_care_coordination_item(DB, u, i, now)
              IN  out.raised /\ out.db = DB
    /\ (last.op = "create_read" /\ sess[last.user].pc = "done") => last.raised

----------------------------------------------------------------------------
(* Extraction confidence *)

(* C26: a referral created by ingestion needs human review whenever its    *)
(* overall extraction confidence is below 80 on the 0-100 scale.           *)
C26_LowConfidenceNeedsReview ==
    \A r \in DOMAIN referrals :
       referrals[r].extraction_confidence < 80
          => referrals[r].needs_human_review

Present(res) == {f \in AllFields : res[f] # None}

SameMean(a, b) == a.sum * b.n = b.sum * a.n

(* C27: the overall confidence of an extraction is the arithmetic mean of  *)
(* the confidences of exactly the fields that have a value, and 0 when no  *)
(* field has one.                                                          *)
C27_OverallIsMeanOfPresent ==
    ext.pc \in {"parsed", "enriched"} =>
       SameMean(get_overall_confidence(ext.result),
                IF Present(ext.result) = {} THEN Zero
                ELSE Mean([f \in AllFields |-> ext.result[f].confidence],
                          Present(ext.result)))

(* C28: no field with a confidence below 50 is present in the extraction   *)
(* result or in the record the converter derives from it.                  *)
C28_ConfidenceFloor ==
    /\ ext.pc \in {"parsed", "enriched"} =>
          \A f \in Present(ext.result) : ext.result[f].confidence >= 50
    /\ ext.pc = "converted" =>
          \A k \in DOMAIN ext.fm.confidence_scores :
             ext.fm.confidence_scores[k] >= 50

(* C29: every per-field confidence in an extraction result or in the       *)
(* converter's output, the derived ones included, lies within 0..100.      *)
C29_ConfidenceInRange ==
    /\ ext.pc \in {"parsed", "enriched"} =>
          \A f \in Present(ext.result) : ext.result[f].confidence \in 0 .. 100
    /\ ext.pc = "converted" =>
          \A k \in DOMAIN ext.fm.confidence_scores :
             ext.fm.confidence_scores[k] \in 0 .. 100

Explicit(x, f) == x[f] # None /\ x[f].value # ""

(* C30: an address line, city or state supplied by its explicit field is   *)
(* never replaced by the value parsed from the combined address field:     *)
(* not in the parsed result (against the response), and not in the         *)
(* converter's record or the referral's columns (against the extraction    *)
(* they are given).                                                        *)
C30_ExplicitAddressKept ==
    /\ ext.pc \in {"parsed", "enriched"} =>
          \A f \in {"claimant_address_1", "claimant_city", "claimant_state"} :
             Explicit(ext.data, f) => ext.result[f].value = ext.data[f].value
    /\ ext.pc = "converted" =>
          /\ Explicit(ext.result, "claimant_address_1")
                => ext.fm.address_1 = ext.result["claimant_address_1"].value
          /\ Explicit(ext.result, "claimant_city")
                => ext.fm.city = ext.result["claimant_city"].value
          /\ Explicit(ext.result, "claimant_state")
                => ext.fm.state
                     = _normalize_state(ext.result["claimant_state"].value)
    /\ ext.pc = "referral" =>
          /\ Explicit(ext.result, "claimant_address_1")
                => ext.address.address_1
                     = ext.result["claimant_address_1"].value
          /\ Explicit(ext.result, "claimant_city")
                => ext.address.city = ext.result["claimant_city"].value
          /\ Explicit(ext.result, "claimant_state")
                => ext.address.state
                     = _normalize_state(ext.result["claimant_state"].value)

(* C31: after load_icd10_from_csv or load_procedures_from_csv has returned *)
(* or failed, either every row of the file that has a code is in the table *)
(* exactly once, active, under the comparison the loader itself uses to    *)
(* decide whether a code exists, or the table is as it was before the call *)
Matches(table, code) == {i \in DOMAIN table : Upper(table[i].code) = Upper(code)}

PresentOnce(table, code) ==
    /\ Cardinality(Matches(table, code)) = 1
    /\ \A i \in Matches(table, code) : table[i].is_active

C31_LoadAllOrNothing ==
    dim.kind # "none" =>
        \/ \A k \in DOMAIN dim.file :
               dim.file[k].code # "" => PresentOnce(dim[dim.kind], dim.file[k].code)
        \/ dim[dim.kind] = dim.before

(* C32: normalize_zip is idempotent: normalising a normalised zip code     *)
(* gives the same string, for every input                                  *)
C32_NormalizeZipIdempotent ==
    zip.pc = "twice" => zip.twice = zip.once

(* an over-long input with separators was cut to five digits and then      *)
(* normalised again                                                        *)
C32_Witness ==
    /\ zip.pc = "twice"
    /\ Len(DigitsOnly(zip.x)) = 7
    /\ Len(zip.x) > 7
    /\ Len(zip.once) = 5

(* C33: get_pending_items returns the pending items of a queue ordered by  *)
(* priority (urgent, high, medium, low) and, among items of equal          *)
(* priority, by entered time ascending                                     *)
C33_PendingByPriority ==
    \A qt \in QueueTypes, limit \in Limits :
      \A s \in get_pending_items(DB, queues, qt, limit) :
        \A j, k \in DOMAIN s : j < k =>
          OrderByPriorityThenEntered(items[s[j]], items[s[k]])

(* C34: when a pass of the ingestion poll comes to a message whose email   *)
(* record is extraction_failed, it does not skip the message but attempts  *)
(* the extraction again; when the email record is processed, the pass      *)
(* skips the message                                                       *)
Skips(p) == run'[p] = Returned(run[p])

C34_FailedReattempted ==
    [][\A p \in Pollers :
         (run[p].pc = "check" /\ run'[p] # run[p]) =>
           LET E == ExistingEmail(DB, run[p].i)
           IN  /\ (\E e \in E : emails[e].status = "extraction_failed") => ~Skips(p)
               /\ (\E e \in E : emails[e].status = "processed") => Skips(p)]_vars

----------------------------------------------------------------------------
(* Ownership of claimed items *)

(* C35: while an intake or care-coordination item is in_progress and       *)
(* assigned to a worker, a step that changes the item's status or          *)
(* assignment is an operation invoked by that worker                       *)
C35_OnlyAssigneeChangesItem ==
    [][\A i \in DOMAIN items :
         (/\ items[i].queue \in ClaimTypes
          /\ items[i].status = "in_progress"
          /\ items[i].assigned_to # NoUser
          /\ \/ items'[i].status # items[i].status
             \/ items'[i].assigned_to # items[i].assigned_to)
         => last'.user = items[i].assigned_to]_vars

(* C36: in every reachable state a referral has a pending or in_progress   *)
(* intake item exactly when its status is pending_validation, and a        *)
(* pending or in_progress care-coordination item exactly when its status   *)
(* is validated or pending_scheduling                                      *)
OpenItems(r, qt) ==
    {i \in DOMAIN items : /\ items[i].referral_id = r
                          /\ items[i].queue = qt
                          /\ items[i].status \in NonTerminal}

C36_StatusMatchesQueue ==
    \A r \in DOMAIN referrals :
      /\ OpenItems(r, "intake") # {} <=> referrals[r].status = "pending_validation"
      /\ OpenItems(r, "care_coordination") # {}
           <=> referrals[r].status \in {"validated", "pending_scheduling"}

(* models/queue.py 195-201: processing_time_minutes is None unless both    *)
(* stamps are set                                                          *)
HasProcessingTime(it) == it.started_at # NoTime /\ it.completed_at # NoTime

processing_time_minutes(it) == it.completed_at - it.started_at

(* C37: every item whose status is completed or failed has started_at and  *)
(* completed_at set, started_at not later than completed_at, so that its   *)
(* processing time is defined and not negative; the processing time is     *)
(* undefined only for items that are not completed or failed               *)
C37_FinishedItemsHaveProcessingTime ==
    \A i \in DOMAIN items :
      /\ items[i].status \in {"completed", "failed"} =>
           /\ HasProcessingTime(items[i])
           /\ items[i].started_at <= items[i].completed_at
           /\ processing_time_minutes(items[i]) >= 0
      /\ ~HasProcessingTime(items[i]) =>
           items[i].status \notin {"completed", "failed"}

(* C38: a successful claim request for queue item X leaves X in_progress   *)
(* and assigned to the caller, returns X, changes no other queue item, and *)
(* happens only when X was pending                                         *)
C38_ClaimsTheRequestedItem ==
    [][(/\ last' # last
        /\ last'.op = "claim_queue_item"
        /\ ~last'.raised)
       => /\ last'.result = last'.item
          /\ items[last'.item].status = "pending"
          /\ items'[last'.item].status = "in_progress"
          /\ items'[last'.item].assigned_to = last'.user
          /\ \A j \in DOMAIN items : j # last'.item => items'[j] = items[j]]_vars

(* C39: a referral is pending_scheduling only while its care-coordination  *)
(* item is claimed (in_progress); after the claimed item is released back  *)
(* to pending the referral is validated again                              *)
C39_ReleaseRestoresValidated ==
    [][/\ (\A i \in DOMAIN items :
         (/\ items[i].queue = "care_coordination"
          /\ items[i].status = "in_progress"
          /\ items'[i].status = "pending"
          /\ items[i].referral_id \in DOMAIN referrals)
         => referrals'[items[i].referral_id].status = "validated")
       /\ \A r \in DOMAIN referrals' :
            referrals'[r].status = "pending_scheduling" =>
              \E i \in DOMAIN items' :
                /\ items'[i].referral_id = r
                /\ items'[i].queue = "care_coordination"
                /\ items'[i].status = "in_progress"]_vars

====
